---- MODULE Spec2Model ----
(***************************************************************************)
(* The persistent store of TodoUI (database.py, class DatabaseManager):    *)
(* the SQLite rows of the projects and tasks tables, the connection with   *)
(* its foreign-key pragma, the backup directory, and one action per store  *)
(* operation.  Every mutating action contains its commit and its _backup.  *)
(***************************************************************************)
EXTENDS Integers, Sequences, FiniteSets, TLC

\* ---------------------------------------------------------------- bounds
MaxProjects == 2        \* successful create_project calls
MaxTasks == 3           \* successful create_task calls
MaxClock == 1           \* last clock tick
MaxOps == 4             \* store operations per behaviour
MaxThreads == 2         \* threads that call the store

\* ------------------------------------------------------------- constants
TicksPerSecond == 2     \* clock ticks per second of the backup file name

NULL == <<>>            \* SQL NULL / Python None in a timestamp column
NONE == "None"          \* Python None passed for a text parameter

\* ------------------------------------------------------- the input sets
Names == {"", "a", NONE}    \* create_project names
Descriptions == {NONE}      \* create_project descriptions (the default)
Titles == {"t", NONE}       \* create_task titles; update_task also sets ""
Priorities == {0}           \* create_task priorities (the default)
DueDates == {NULL}          \* create_task due dates (the default)
ProjectIdArgs == 1..MaxProjects   \* ids passed for a project, stored or not
TaskIdArgs == 1..MaxTasks         \* ids passed for a task, stored or not
CopyOutcomes == {TRUE}      \* whether shutil.copy2 succeeds
OrderPriorities == {-1, 0, 5}     \* create_task priorities of the ordering runs
\* create_task <<priority, due_date>> of the listing runs: the task due later
\* has the smaller priority value
DueInputs == {<<0, NULL>>, <<0, <<1, 0>>>>, <<-5, <<2, 0>>>>}

\* the keyword arguments update_task is called with
KwargsList ==
    << [k \in {} |-> 0],
       [project_id |-> 2],
       [title |-> ""], [title |-> "t"], [title |-> NONE],
       [priority |-> 0], [priority |-> 1],
       [due_date |-> NULL], [due_date |-> <<1, 0>>],
       [is_completed |-> TRUE], [is_completed |-> FALSE],
       [is_deleted |-> TRUE], [is_deleted |-> FALSE],
       [title |-> "t", priority |-> 1, project_id |-> 2],
       [id |-> 3, created_at |-> <<1, 0>>, priority |-> 1] >>

VARIABLES
    projects,        \* rows of table projects
    tasks,           \* rows of table tasks
    seq_projects,    \* sqlite_sequence of projects (AUTOINCREMENT)
    seq_tasks,       \* sqlite_sequence of tasks (AUTOINCREMENT)
    foreign_keys,    \* PRAGMA foreign_keys of the current connection
    conn,            \* self.conn: "open" or "closed"
    backups,         \* file names in the backup directory
    clock,           \* datetime.now(), in ticks
    nops,            \* operations called so far
    raised,          \* whether the last operation called raised an exception
    purged,          \* ids of the tasks that belonged to a project when it was hard-deleted
    deleted_projects,\* ids of the projects removed by delete_project
    archive_called,  \* ids of the projects archive_project was applied to
    backup_data,     \* the content of each file in the backup directory
    issued_projects, \* every id create_project has assigned
    issued_tasks,    \* every id create_task has assigned
    round,           \* the rows before the last complete_task, while only
                     \* its uncomplete_task has followed
    config_file,     \* the content of CONFIG_FILE (config.json)
    directories,     \* whether the default data and backup directories exist
    instance,        \* ConfigManager._instance: 0 for None, or a manager
    managers,        \* the ConfigManager objects of the process
    configs,         \* the Config objects of the process
    loads,           \* runs of _load_or_create in the process
    returned,        \* the objects ConfigManager() and get_config() returned
    threads          \* the thread that created self.conn, each thread's place
                     \* in the operation it runs, and what it has executed

vars == <<projects, tasks, seq_projects, seq_tasks, foreign_keys, conn,
          backups, clock, nops, raised, purged, deleted_projects, archive_called,
          backup_data, issued_projects, issued_tasks, round,
          config_file, directories, instance, managers, configs, loads, returned,
          threads>>

\* the state of config.py
ConfigVars == <<config_file, directories, instance, managers, configs, loads, returned>>

\* the state of database.py, the operation counter and outcome apart
DatabaseVars == <<projects, tasks, seq_projects, seq_tasks, foreign_keys, conn,
                  backups, clock, purged, deleted_projects, archive_called,
                  backup_data, issued_projects, issued_tasks, round, threads>>

\* --------------------------------------------------------- conversions
\* datetime.now(): a datetime of whole seconds and a sub-second part
Now == <<clock \div TicksPerSecond, clock % TicksPerSecond>>

\* datetime.isoformat(): the sub-second part is left out when it is zero
IsoFormat(dt) == IF dt[2] = 0 THEN <<dt[1]>> ELSE dt

\* datetime.fromisoformat(text) if text else None
FromIsoFormat(text) ==
    IF text = NULL THEN NULL
    ELSE IF Len(text) = 1 THEN <<text[1], 0>> ELSE text

\* datetime.now().strftime("%Y%m%d_%H%M%S"): second resolution
Strftime(dt) == dt[1]

\* a Python bool bound to an INTEGER column
BoolToInt(b) == IF b THEN 1 ELSE 0

ProjectIds == {p.id : p \in projects}
TaskIds == {t.id : t \in tasks}

\* ------------------------------------------------------------ _backup
\* the committed content of the database file
Content == [projects |-> projects, tasks |-> tasks]

\* shutil.copy2(db_path, backup_dir / name): a file of that name is replaced
CopyTo(name, content) ==
    [f \in DOMAIN backup_data \cup {name} |->
        IF f = name THEN content ELSE backup_data[f]]

\* no complete_task is waiting for its uncomplete_task
NoRound == [stage |-> "none"]

\* _backup called before self.conn.commit(): the copy lacks the change
BackupBeforeCommit(copy_ok) ==
    /\ backups' = IF copy_ok THEN backups \cup {Strftime(Now)} ELSE backups
    /\ backup_data' = IF copy_ok THEN CopyTo(Strftime(Now), Content) ELSE backup_data
    /\ conn' = IF copy_ok THEN "open" ELSE "closed"
    /\ foreign_keys' = FALSE

\* close the connection, copy the file, reconnect; the new connection has
\* the default pragma (foreign keys off); a failed copy leaves it closed
Backup(copy_ok) ==
    /\ backups' = IF copy_ok THEN backups \cup {Strftime(Now)} ELSE backups
    /\ backup_data' = IF copy_ok THEN CopyTo(Strftime(Now), Content') ELSE backup_data
    /\ conn' = IF copy_ok THEN "open" ELSE "closed"
    /\ foreign_keys' = FALSE

\* an operation that raises before its commit: no row changes, no backup
Raise ==
    /\ raised' = TRUE
    /\ round' = NoRound
    /\ UNCHANGED <<projects, tasks, seq_projects, seq_tasks, foreign_keys,
                   conn, backups, purged, deleted_projects, archive_called,
                   backup_data, issued_projects, issued_tasks>>

\* the outcome of an operation that reached its _backup
Return(copy_ok) ==
    raised' = ~copy_ok

Called == nops < MaxOps /\ nops' = nops + 1 /\ UNCHANGED <<clock, ConfigVars, threads>>

\* ------------------------------------------------------------- threads
Threads == 1..MaxThreads

\* the store was constructed by thread 1 and no thread is inside an operation
IdleThreads ==
    [owner |-> 1,
     pc |-> [th \in Threads |-> "idle"],
     pending |-> [th \in Threads |-> << >>],
     read_while_closed |-> FALSE]

\* a connection opened with check_same_thread=False
AnyThread(th) == TRUE

\* sqlite3.connect(path) has check_same_thread on: every call on the
\* connection from a thread other than the one that created it raises
\* ProgrammingError
SameThread(th) == th = threads.owner

\* ------------------------------------------------------------ config.py
\* the fields of the Config dataclass, and those without a default
Fields == {"database_path", "backup_path", "frame_count", "default_priority",
           "theme", "frame_projects"}
Required == {"database_path", "backup_path"}

\* Config.default(): the default paths and the dataclass defaults
DefaultConfig ==
    [database_path |-> "data/todoui.db", backup_path |-> "data/backups",
     frame_count |-> 3, default_priority |-> 0, theme |-> "dark",
     frame_projects |-> << >>]

\* what CONFIG_FILE may hold when the process starts: nothing, text that is
\* not JSON, or a JSON object: every field, the required fields only, a
\* required field missing, an unknown key
CustomData ==
    [database_path |-> "d/todo.db", backup_path |-> "d/b", frame_count |-> 2,
     default_priority |-> 1, theme |-> "light", frame_projects |-> <<1>>]
InitialFiles ==
    {[kind |-> "absent"],
     [kind |-> "corrupt"],
     [kind |-> "json", data |-> CustomData],
     [kind |-> "json", data |-> [database_path |-> "d/todo.db", backup_path |-> "d/b"]],
     [kind |-> "json", data |-> [database_path |-> "d/todo.db", theme |-> "light"]],
     [kind |-> "json", data |-> [database_path |-> "d/todo.db", backup_path |-> "d/b",
                                 colour |-> "red"]]}

\* the keyword arguments update is called with
UpdateKwargs ==
    << [k \in {} |-> 0],
       [theme |-> "light"],
       [frame_count |-> 2, frame_projects |-> <<1, 2>>],
       [colour |-> "red"],
       [default |-> "x", default_priority |-> 1] >>

\* Config(**data): a TypeError for an unexpected keyword or a missing
\* required one; otherwise the fields given, the others at their defaults
ConfigRaises(data) ==
    ~(DOMAIN data \subseteq Fields) \/ ~(Required \subseteq DOMAIN data)
Config(data) ==
    [f \in Fields |-> IF f \in DOMAIN data THEN data[f] ELSE DefaultConfig[f]]

\* asdict(config): the dataclass fields, no other attribute of the object
asdict(config) == [f \in Fields |-> config[f]]

\* _save: json.dump(asdict(self._config)) over the file
Save(config) == [kind |-> "json", data |-> asdict(config)]

\* hasattr(self._config, key): an attribute of the object or of its class
\* (the classmethod default)
hasattr(config, key) == key \in DOMAIN config \cup {"default"}

\* update rebuilding the configuration from the defaults and the keywords
ReplaceByKwargs(config, kwargs) ==
    [k \in Fields |-> IF k \in DOMAIN kwargs THEN kwargs[k] ELSE DefaultConfig[k]]

\* for key, value in kwargs.items(): if hasattr: setattr(config, key, value)
SetAttrs(config, kwargs) ==
    [k \in DOMAIN config \cup {key \in DOMAIN kwargs : hasattr(config, key)} |->
        IF k \in DOMAIN kwargs THEN kwargs[k] ELSE config[k]]

\* _load_or_create ending without _save when the load failed
LoadOrCreateKeepingFile(file) ==
    IF file.kind = "absent"
    THEN [config |-> DefaultConfig, file |-> Save(DefaultConfig), mkdir |-> TRUE]
    ELSE IF file.kind = "corrupt" \/ ConfigRaises(file.data)
    THEN [config |-> DefaultConfig, file |-> file, mkdir |-> FALSE]
    ELSE [config |-> Config(file.data), file |-> file, mkdir |-> FALSE]

\* _load_or_create: the Config it leaves, the file, and whether
\* _ensure_directories ran
LoadOrCreate(file) ==
    IF file.kind = "absent"
    THEN [config |-> DefaultConfig, file |-> Save(DefaultConfig), mkdir |-> TRUE]
    ELSE IF file.kind = "corrupt" \/ ConfigRaises(file.data)
    THEN [config |-> DefaultConfig, file |-> Save(DefaultConfig), mkdir |-> FALSE]
    ELSE [config |-> Config(file.data), file |-> file, mkdir |-> FALSE]

\* ConfigManager.__new__ without the test of _instance: a new object each call
NewEachCall(current) == Len(managers) + 1

\* ConfigManager.__new__: the object the call yields, a new one only when
\* _instance is None
New(current) == IF current = 0 THEN Len(managers) + 1 ELSE current

\* the settings after main() started the process on a machine without
\* settings file: the defaults, saved, in the one manager
StartedSettings ==
    /\ config_file = Save(DefaultConfig)
    /\ directories = TRUE
    /\ instance = 1
    /\ managers = <<[initialized |-> TRUE, config |-> 1]>>
    /\ configs = <<DefaultConfig>>
    /\ loads = 1
    /\ returned = [managers |-> {1}, configs |-> {1}]

\* ------------------------------------------------------------- actions
Init ==
    /\ projects = {}
    /\ tasks = {}
    /\ seq_projects = 0
    /\ seq_tasks = 0
    /\ foreign_keys = TRUE
    /\ conn = "open"
    /\ backups = {}
    /\ clock = 0
    /\ nops = 0
    /\ raised = FALSE
    /\ purged = {}
    /\ deleted_projects = {}
    /\ archive_called = {}
    /\ backup_data = << >>
    /\ issued_projects = {}
    /\ issued_tasks = {}
    /\ round = NoRound
    /\ threads = IdleThreads
    /\ StartedSettings

\* a store opened by DatabaseManager on the file a previous session left:
\* two projects created in the same second, each create_project backed up
InitQuery ==
    /\ projects = {[id |-> i, name |-> "a", description |-> NONE, is_archived |-> 0,
                    created_at |-> <<0>>, archived_at |-> NULL] : i \in 1..2}
    /\ tasks = {}
    /\ seq_projects = 2
    /\ seq_tasks = 0
    /\ foreign_keys = TRUE
    /\ conn = "open"
    /\ backups = {0}
    /\ clock = 0
    /\ nops = 0
    /\ raised = FALSE
    /\ purged = {}
    /\ deleted_projects = {}
    /\ archive_called = {}
    /\ backup_data = <<>> @@ (0 :> Content)
    /\ issued_projects = {1, 2}
    /\ issued_tasks = {}
    /\ round = NoRound
    /\ threads = IdleThreads
    /\ StartedSettings

\* the wall clock datetime.now() reads is set back (a clock adjustment, or
\* the repeated hour at the end of daylight saving time: the datetimes are
\* naive local times)
ClockSetBack ==
    /\ clock > 0
    /\ clock' = 0
    /\ UNCHANGED <<projects, tasks, seq_projects, seq_tasks, foreign_keys, conn,
                   backups, nops, raised, purged, deleted_projects, archive_called,
                   backup_data, issued_projects, issued_tasks, round, ConfigVars,
                   threads>>

Tick ==
    /\ clock < MaxClock
    /\ clock' = clock + 1
    /\ UNCHANGED <<projects, tasks, seq_projects, seq_tasks, foreign_keys, conn,
                   backups, nops, raised, purged, deleted_projects, archive_called,
                   backup_data, issued_projects, issued_tasks, round, ConfigVars,
                   threads>>

\* INTEGER PRIMARY KEY without AUTOINCREMENT: one more than the largest
\* stored rowid
MaxRowidPlusOne(seq, ids) ==
    IF ids = {} THEN 1 ELSE (CHOOSE m \in ids : \A i \in ids : i <= m) + 1

\* INTEGER PRIMARY KEY AUTOINCREMENT: one more than the largest rowid the
\* table has ever held, which sqlite_sequence records
AutoIncrement(seq, ids) == seq + 1

create_project(name, description, copy_ok) ==
    /\ Called
    /\ IF conn = "closed" \/ name = NONE
       THEN Raise
       ELSE /\ seq_projects < MaxProjects
            /\ projects' = projects \cup
                 {[id |-> AutoIncrement(seq_projects, ProjectIds), name |-> name,
                   description |-> description, is_archived |-> 0,
                   created_at |-> IsoFormat(Now), archived_at |-> NULL]}
            /\ seq_projects' = AutoIncrement(seq_projects, ProjectIds)
            /\ issued_projects' = issued_projects \cup
                                     {AutoIncrement(seq_projects, ProjectIds)}
            /\ round' = NoRound
            /\ UNCHANGED <<tasks, seq_tasks, purged, deleted_projects,
                           archive_called, issued_tasks>>
            /\ Backup(copy_ok)
            /\ Return(copy_ok)

\* archive_project switching the flag: SET is_archived = 1 - is_archived
ToggleArchiveRows(project_id, now) ==
    {IF p.id = project_id
     THEN [p EXCEPT !.is_archived = 1 - p.is_archived, !.archived_at = now]
     ELSE p : p \in projects}

\* UPDATE projects SET is_archived = 1, archived_at = ? WHERE id = ?
ArchiveRows(project_id, now) ==
    {IF p.id = project_id
     THEN [p EXCEPT !.is_archived = 1, !.archived_at = now]
     ELSE p : p \in projects}

archive_project(project_id, copy_ok) ==
    /\ Called
    /\ IF conn = "closed"
       THEN Raise
       ELSE /\ projects' = ArchiveRows(project_id, IsoFormat(Now))
            /\ archive_called' = archive_called \cup ({project_id} \cap ProjectIds)
            /\ round' = NoRound
            /\ UNCHANGED <<tasks, seq_projects, seq_tasks, purged, deleted_projects,
                           issued_projects, issued_tasks>>
            /\ Backup(copy_ok)
            /\ Return(copy_ok)

\* delete_project without its first DELETE, leaving the tasks to ON DELETE CASCADE
DeleteTasksByCascade(project_id) ==
    IF foreign_keys THEN {t \in tasks : t.project_id # project_id} ELSE tasks

\* DELETE FROM tasks WHERE project_id = ?
DeleteTasksOf(project_id) == {t \in tasks : t.project_id # project_id}

\* DELETE FROM projects WHERE id = ?
DeleteProjectRow(project_id) == {p \in projects : p.id # project_id}

delete_project(project_id, copy_ok) ==
    /\ Called
    /\ IF conn = "closed"
       THEN Raise
       ELSE /\ tasks' = DeleteTasksOf(project_id)
            /\ projects' = DeleteProjectRow(project_id)
            /\ purged' = IF project_id \in ProjectIds
                         THEN purged \cup {t.id : t \in {u \in tasks : u.project_id = project_id}}
                         ELSE purged
            /\ deleted_projects' = deleted_projects \cup ({project_id} \cap ProjectIds)
            /\ round' = NoRound
            /\ UNCHANGED <<seq_projects, seq_tasks, archive_called,
                           issued_projects, issued_tasks>>
            /\ Backup(copy_ok)
            /\ Return(copy_ok)

\* the FOREIGN KEY (project_id) REFERENCES projects(id) check of an INSERT,
\* made only by a connection whose foreign_keys pragma is on
ForeignKeyFails(project_id) == foreign_keys /\ project_id \notin ProjectIds

\* the NOT NULL constraint of name and title
NotNullFails(text) == text = NONE

create_task(project_id, title, priority, due_date, copy_ok) ==
    /\ Called
    /\ IF conn = "closed" \/ NotNullFails(title) \/ ForeignKeyFails(project_id)
       THEN Raise
       ELSE /\ seq_tasks < MaxTasks
            /\ tasks' = tasks \cup
                 {[id |-> AutoIncrement(seq_tasks, TaskIds), project_id |-> project_id, title |-> title,
                   priority |-> priority,
                   due_date |-> IF due_date # NULL THEN IsoFormat(due_date) ELSE NULL,
                   is_completed |-> 0, is_deleted |-> 0,
                   created_at |-> IsoFormat(Now),
                   completed_at |-> NULL, deleted_at |-> NULL]}
            /\ seq_tasks' = AutoIncrement(seq_tasks, TaskIds)
            /\ issued_tasks' = issued_tasks \cup {AutoIncrement(seq_tasks, TaskIds)}
            /\ round' = NoRound
            /\ UNCHANGED <<projects, seq_projects, purged, deleted_projects,
                           archive_called, issued_projects>>
            /\ Backup(copy_ok)
            /\ Return(copy_ok)

\* UPDATE tasks SET is_completed = 1, completed_at = ? WHERE id = ?
CompleteRows(task_id, now) ==
    {IF t.id = task_id
     THEN [t EXCEPT !.is_completed = 1, !.completed_at = now]
     ELSE t : t \in tasks}

\* uncomplete_task clearing the flag alone: UPDATE tasks SET is_completed = 0
UncompleteFlagOnly(task_id) ==
    {IF t.id = task_id THEN [t EXCEPT !.is_completed = 0] ELSE t : t \in tasks}

\* UPDATE tasks SET is_completed = 0, completed_at = NULL WHERE id = ?
UncompleteRows(task_id) ==
    {IF t.id = task_id
     THEN [t EXCEPT !.is_completed = 0, !.completed_at = NULL]
     ELSE t : t \in tasks}

\* UPDATE tasks SET is_deleted = 1, deleted_at = ? WHERE id = ?
DeleteRows(task_id, now) ==
    {IF t.id = task_id
     THEN [t EXCEPT !.is_deleted = 1, !.deleted_at = now]
     ELSE t : t \in tasks}

complete_task(task_id, copy_ok) ==
    /\ Called
    /\ IF conn = "closed"
       THEN Raise
       ELSE /\ tasks' = CompleteRows(task_id, IsoFormat(Now))
            /\ round' = IF \E t \in tasks : t.id = task_id /\ t.is_completed = 0
                        THEN [stage |-> "completed", id |-> task_id,
                              before |-> Content]
                        ELSE NoRound
            /\ UNCHANGED <<projects, seq_projects, seq_tasks, purged,
                           deleted_projects, archive_called,
                           issued_projects, issued_tasks>>
            /\ Backup(copy_ok)
            /\ Return(copy_ok)

uncomplete_task(task_id, copy_ok) ==
    /\ Called
    /\ IF conn = "closed"
       THEN Raise
       ELSE /\ tasks' = UncompleteRows(task_id)
            /\ round' = IF round.stage = "completed" /\ round.id = task_id
                        THEN [round EXCEPT !.stage = "restored"]
                        ELSE NoRound
            /\ UNCHANGED <<projects, seq_projects, seq_tasks, purged,
                           deleted_projects, archive_called,
                           issued_projects, issued_tasks>>
            /\ Backup(copy_ok)
            /\ Return(copy_ok)

delete_task(task_id, copy_ok) ==
    /\ Called
    /\ IF conn = "closed"
       THEN Raise
       ELSE /\ tasks' = DeleteRows(task_id, IsoFormat(Now))
            /\ round' = NoRound
            /\ UNCHANGED <<projects, seq_projects, seq_tasks, purged,
                           deleted_projects, archive_called,
                           issued_projects, issued_tasks>>
            /\ Backup(copy_ok)
            /\ Return(copy_ok)

\* update_task accepting project_id among its keyword arguments
allowed_fields_and_project ==
    {"title", "priority", "due_date", "is_completed", "is_deleted", "project_id"}

\* update_task: the keyword arguments it accepts
allowed_fields == {"title", "priority", "due_date", "is_completed", "is_deleted"}

\* the value bound to column key: a datetime due_date is formatted, a bool
\* is stored as 0 or 1, every other value is stored as given
BindValue(key, value) ==
    IF key = "due_date"
    THEN (IF value # NULL THEN IsoFormat(value) ELSE NULL)
    ELSE IF key \in {"is_completed", "is_deleted"} THEN BoolToInt(value)
    ELSE value

\* the columns the built UPDATE statement sets
UpdatesAnyKeyword(kwargs) == DOMAIN kwargs

Updates(kwargs) == DOMAIN kwargs \cap allowed_fields

\* update_task without the allowed_fields filter: every keyword is a column
UpdateRowAnyField(t, kwargs) ==
    [col \in DOMAIN t |->
        IF col \in DOMAIN kwargs THEN BindValue(col, kwargs[col]) ELSE t[col]]

\* UPDATE tasks SET <updates> WHERE id = ?
UpdateRow(t, kwargs) ==
    [col \in DOMAIN t |->
        IF col \in Updates(kwargs) THEN BindValue(col, kwargs[col]) ELSE t[col]]

UpdateRows(task_id, kwargs) ==
    {IF t.id = task_id THEN UpdateRow(t, kwargs) ELSE t : t \in tasks}

update_task(task_id, kwargs, copy_ok) ==
    /\ Called
    /\ IF Updates(kwargs) = {}
       THEN \* both early returns: nothing is executed
            /\ raised' = FALSE
            /\ round' = NoRound
            /\ UNCHANGED <<projects, tasks, seq_projects, seq_tasks, foreign_keys,
                           conn, backups, purged, deleted_projects, archive_called,
                           backup_data, issued_projects, issued_tasks>>
       ELSE IF \/ conn = "closed"
               \/ /\ task_id \in TaskIds
                  /\ "title" \in DOMAIN kwargs
                  /\ NotNullFails(kwargs["title"])
       THEN Raise
       ELSE /\ tasks' = UpdateRows(task_id, kwargs)
            /\ round' = NoRound
            /\ UNCHANGED <<projects, seq_projects, seq_tasks, purged,
                           deleted_projects, archive_called,
                           issued_projects, issued_tasks>>
            /\ Backup(copy_ok)
            /\ Return(copy_ok)

close ==
    /\ Called
    /\ conn' = "closed"
    /\ raised' = FALSE
    /\ round' = NoRound
    /\ UNCHANGED <<projects, tasks, seq_projects, seq_tasks, foreign_keys,
                   backups, purged, deleted_projects, archive_called,
                   backup_data, issued_projects, issued_tasks>>

\* DatabaseManager(config) on the existing file, after the previous manager
\* lost or closed its connection: connect, CREATE TABLE IF NOT EXISTS, and
\* PRAGMA foreign_keys = ON
DatabaseManager ==
    /\ Called
    /\ conn = "closed"
    /\ conn' = "open"
    /\ foreign_keys' = TRUE
    /\ raised' = FALSE
    /\ round' = NoRound
    /\ UNCHANGED <<projects, tasks, seq_projects, seq_tasks,
                   backups, purged, deleted_projects, archive_called,
                   backup_data, issued_projects, issued_tasks>>

\* ------------------------------------------------------------- queries
\* SQLite's comparison of two stored timestamps (ISO text, or NULL, which
\* sorts before every text): text is compared left to right, and a text
\* that is a prefix of another sorts before it
SqlLess(a, b) ==
    IF a = NULL THEN b # NULL
    ELSE IF b = NULL THEN FALSE
    ELSE \/ a[1] < b[1]
         \/ a[1] = b[1] /\ Len(a) < Len(b)
         \/ a[1] = b[1] /\ Len(a) = 2 /\ Len(b) = 2 /\ a[2] < b[2]

\* the texts a name can be, in the order of SQLite's BINARY collation
Collation == <<"", "a">>
TextRank(text) == CHOOSE i \in 1..Len(Collation) : Collation[i] = text

\* the orders in which a SELECT ... ORDER BY may return rows: every
\* arrangement of the rows in which no row comes after one it precedes
\* (rows with equal sort keys come in an order SQLite does not specify);
\* precedes is the set of the pairs <<r, s>> with r sorting before s.  The
\* first row is one that no row precedes, the rest is ordered the same way
RECURSIVE OrderBy(_, _)
OrderBy(rows, precedes) ==
    IF rows = {} THEN {<< >>}
    ELSE UNION {{<<first>> \o rest : rest \in OrderBy(rows \ {first}, precedes)} :
                    first \in {r \in rows : \A s \in rows : <<s, r>> \notin precedes}}

\* Project(id=row["id"], ..., is_archived=bool(row["is_archived"]), ...)
RowToProject(row) ==
    [id |-> row.id, name |-> row.name, description |-> row.description,
     is_archived |-> row.is_archived # 0,
     created_at |-> FromIsoFormat(row.created_at),
     archived_at |-> FromIsoFormat(row.archived_at)]

\* Task(id=row["id"], ..., is_completed=bool(row["is_completed"]), ...)
RowToTask(row) ==
    [id |-> row.id, project_id |-> row.project_id, title |-> row.title,
     priority |-> row.priority, due_date |-> FromIsoFormat(row.due_date),
     is_completed |-> row.is_completed # 0, is_deleted |-> row.is_deleted # 0,
     created_at |-> FromIsoFormat(row.created_at),
     completed_at |-> FromIsoFormat(row.completed_at),
     deleted_at |-> FromIsoFormat(row.deleted_at)]

\* get_projects without the WHERE is_archived = 0 of its default branch
SelectAllProjects(include_archived) == projects

\* SELECT * FROM projects [WHERE is_archived = 0]
SelectProjects(include_archived) ==
    {p \in projects : include_archived \/ p.is_archived = 0}

\* ORDER BY name
ByName(p, q) == TextRank(p.name) < TextRank(q.name)

\* the lists get_projects may return
get_projects(include_archived) ==
    LET rows == SelectProjects(include_archived)
        precedes == {pair \in rows \X rows : ByName(pair[1], pair[2])}
    IN  {[i \in DOMAIN s |-> RowToProject(s[i])] : s \in OrderBy(rows, precedes)}

\* get_tasks with the completed tasks filtered out of the default listing
SelectActiveTasks(project_id, include_deleted) ==
    {t \in tasks : /\ t.project_id = project_id
                   /\ (include_deleted \/ (t.is_deleted = 0 /\ t.is_completed = 0))}

\* SELECT * FROM tasks WHERE project_id = ? [AND is_deleted = 0]
SelectTasks(project_id, include_deleted) ==
    {t \in tasks : t.project_id = project_id /\ (include_deleted \/ t.is_deleted = 0)}

\* get_tasks with ORDER BY created_at alone
ByCreated(t, u) == SqlLess(t.created_at, u.created_at)

\* ORDER BY priority, created_at
ByPriorityCreated(t, u) ==
    \/ t.priority < u.priority
    \/ t.priority = u.priority /\ SqlLess(t.created_at, u.created_at)

\* the lists get_tasks may return
get_tasks(project_id, include_deleted) ==
    LET rows == SelectTasks(project_id, include_deleted)
        precedes == {pair \in rows \X rows : ByPriorityCreated(pair[1], pair[2])}
    IN  {[i \in DOMAIN s |-> RowToTask(s[i])] : s \in OrderBy(rows, precedes)}

\* the ids of the non-archived projects: JOIN projects p ... AND p.is_archived = 0
JoinedProjectIds == {p.id : p \in {q \in projects : q.is_archived = 0}}

\* get_tasks_with_due_dates joining the non-archived projects in both branches
SelectDueJoined(project_id) ==
    {t \in tasks :
        /\ t.due_date # NULL
        /\ t.is_completed = 0
        /\ t.is_deleted = 0
        /\ t.project_id \in JoinedProjectIds
        /\ project_id # NULL => t.project_id = project_id[1]}

\* the WHERE clauses of get_tasks_with_due_dates; project_id is <<>> for
\* None and <<id>> for an id
SelectDue(project_id) ==
    {t \in tasks :
        /\ t.due_date # NULL
        /\ t.is_completed = 0
        /\ t.is_deleted = 0
        /\ IF project_id = NULL THEN t.project_id \in JoinedProjectIds
                                ELSE t.project_id = project_id[1]}

\* get_tasks_with_due_dates with ORDER BY priority, due_date
ByPriorityDue(t, u) ==
    \/ t.priority < u.priority
    \/ t.priority = u.priority /\ SqlLess(t.due_date, u.due_date)

\* ORDER BY due_date ASC
ByDueDate(t, u) == SqlLess(t.due_date, u.due_date)

get_tasks_with_due_dates(project_id) ==
    LET rows == SelectDue(project_id)
        precedes == {pair \in rows \X rows : ByDueDate(pair[1], pair[2])}
    IN  {[i \in DOMAIN s |-> RowToTask(s[i])] : s \in OrderBy(rows, precedes)}

\* the WHERE clauses of get_completed_tasks
SelectCompleted(project_id) ==
    {t \in tasks :
        /\ t.is_completed = 1
        /\ t.is_deleted = 0
        /\ IF project_id = NULL THEN t.project_id \in JoinedProjectIds
                                ELSE t.project_id = project_id[1]}

\* get_completed_tasks with ORDER BY completed_at ASC
ByCompletedAsc(t, u) == SqlLess(t.completed_at, u.completed_at)

\* ORDER BY completed_at DESC
ByCompletedDesc(t, u) == SqlLess(u.completed_at, t.completed_at)

get_completed_tasks(project_id) ==
    LET rows == SelectCompleted(project_id)
        precedes == {pair \in rows \X rows : ByCompletedDesc(pair[1], pair[2])}
    IN  {[i \in DOMAIN s |-> RowToTask(s[i])] : s \in OrderBy(rows, precedes)}

\* the ids of the objects in a returned list
IdsOf(list) == {list[i].id : i \in DOMAIN list}

\* the arguments of the optional project_id of the two cross-project queries
OptionalProjectIds == {NULL} \cup {<<p>> : p \in ProjectIdArgs}

\* datetime comparison of two Task.created_at / due_date / completed_at
DatetimeLeq(a, b) == a[1] < b[1] \/ (a[1] = b[1] /\ a[2] <= b[2])

\* the position of task id in a returned list
IndexOf(list, id) == CHOOSE i \in DOMAIN list : list[i].id = id

\* a step of one of the operations that call _backup, on an open store,
\* that returns: create_project, archive_project, delete_project,
\* create_task, complete_task, uncomplete_task, delete_task, and update_task
\* with at least one allowed field
MutatingOperation ==
    /\ conn = "open"
    /\ ~raised'
    /\ \E ok \in CopyOutcomes :
          \/ \E n \in Names, d \in Descriptions : create_project(n, d, ok)
          \/ \E p \in ProjectIdArgs : archive_project(p, ok) \/ delete_project(p, ok)
          \/ \E p \in ProjectIdArgs, t \in Titles, pr \in Priorities, due \in DueDates :
                create_task(p, t, pr, due, ok)
          \/ \E t \in TaskIdArgs :
                complete_task(t, ok) \/ uncomplete_task(t, ok) \/ delete_task(t, ok)
          \/ \E t \in TaskIdArgs, k \in 1..Len(KwargsList) :
                Updates(KwargsList[k]) # {} /\ update_task(t, KwargsList[k], ok)

\* -------------------------------------------------------------- claims

\* C1: after delete_project(P.id), no task that belonged to P is returned by
\* any later query (list_tasks with either include_deleted, list_tasks_due,
\* list_tasks_completed), and P is returned by no list_projects call.
C1_DeletedProjectGone ==
    /\ \A T \in purged :
        /\ \A P \in ProjectIdArgs, incl \in BOOLEAN :
              \A r \in get_tasks(P, incl) : T \notin IdsOf(r)
        /\ \A P \in OptionalProjectIds :
              /\ \A r \in get_tasks_with_due_dates(P) : T \notin IdsOf(r)
              /\ \A r \in get_completed_tasks(P) : T \notin IdsOf(r)
    /\ \A P \in deleted_projects :
          \A incl \in BOOLEAN : \A r \in get_projects(incl) : P \notin IdsOf(r)

\* a project with a task was hard-deleted while another task is still stored
C1_Witness == purged # {} /\ deleted_projects # {} /\ tasks # {} /\ conn = "open"

\* the stored row of task id
TaskRow(id) == CHOOSE t \in tasks : t.id = id

\* C2 as claimed: after complete_task(T.id) of a non-deleted task of a stored,
\* non-archived project, list_tasks(T.project_id, include_deleted=false) does
\* not return T, and list_tasks_completed(null) returns T.
C2_CompletedLeavesListing ==
    [][\A i \in TaskIdArgs, ok \in CopyOutcomes :
        (/\ complete_task(i, ok)
         /\ conn = "open"
         /\ i \in TaskIds
         /\ TaskRow(i).is_deleted = 0
         /\ TaskRow(i).project_id \in JoinedProjectIds)
        => /\ (\A r \in get_tasks(TaskRow(i).project_id, FALSE) : i \notin IdsOf(r))'
           /\ (\A r \in get_completed_tasks(NULL) : i \in IdsOf(r))']_vars

\* C2 amended: after complete_task(T.id) of a stored task T,
\* list_tasks(T.project_id, include_deleted=false) returns exactly the
\* project's non-deleted tasks, completed or not: T is returned (as completed)
\* unless T is deleted; list_tasks_completed(null) returns T if and only if T
\* is not deleted and its project is stored and not archived.
C2_CompletedStaysListed ==
    [][\A i \in TaskIdArgs, ok \in CopyOutcomes :
        (complete_task(i, ok) /\ conn = "open" /\ i \in TaskIds)
        => (/\ \A r \in get_tasks(TaskRow(i).project_id, FALSE) :
                 /\ IdsOf(r) = {t.id : t \in {u \in tasks :
                                    /\ u.project_id = TaskRow(i).project_id
                                    /\ u.is_deleted = 0}}
                 /\ i \in IdsOf(r) <=> TaskRow(i).is_deleted = 0
                 /\ \A k \in DOMAIN r : r[k].id = i => r[k].is_completed
            /\ get_tasks(TaskRow(i).project_id, FALSE) # {}
            /\ \A r \in get_completed_tasks(NULL) :
                 i \in IdsOf(r) <=> /\ TaskRow(i).is_deleted = 0
                                    /\ TaskRow(i).project_id \in JoinedProjectIds)']_vars

\* a task completed by complete_task is returned by the default listing of
\* its project and by the completed listing
C2_Witness ==
    \E t \in tasks :
        /\ t.is_completed = 1 /\ t.completed_at # NULL /\ t.is_deleted = 0
        /\ \E r \in get_tasks(t.project_id, FALSE) : t.id \in IdsOf(r)
        /\ \E r \in get_completed_tasks(NULL) : t.id \in IdsOf(r)

\* C3: every stored task has completed_at non-null if and only if
\* is_completed is true.
C3_CompletedAtIffCompleted ==
    \A t \in tasks : (t.completed_at # NULL) <=> (t.is_completed # 0)

\* C4: delete_task of a task that delete_task has already deleted leaves the
\* stored rows as they were; deleted_at keeps the first call's timestamp.
C4_DeleteTaskIdempotent ==
    [][\A i \in TaskIdArgs, ok \in CopyOutcomes :
        (/\ delete_task(i, ok)
         /\ conn = "open"
         /\ i \in TaskIds
         /\ TaskRow(i).is_deleted = 1
         /\ TaskRow(i).deleted_at # NULL)
        => tasks' = tasks /\ projects' = projects]_vars

\* C5: every stored task with is_deleted true has deleted_at non-null.
C5_DeletedHasDeletedAt ==
    \A t \in tasks : t.is_deleted # 0 => t.deleted_at # NULL

\* C6: once a project's archived_at is set, no operation changes it for as
\* long as the project is stored.
C6_ArchivedAtSetOnce ==
    [][\A p \in projects : \A q \in projects' :
        (q.id = p.id /\ p.archived_at # NULL) => q.archived_at = p.archived_at]_vars

\* C7: every stored task's project_id references a stored project (create_task
\* with any other project_id is rejected).
C7_TaskReferencesProject ==
    \A t \in tasks : t.project_id \in ProjectIds

\* C8: every stored project has a non-empty name and every stored task a
\* non-empty title.
C8_NoEmptyText ==
    /\ \A p \in projects : p.name # ""
    /\ \A t \in tasks : t.title # ""

\* C9: archive_project, delete_project, complete_task, uncomplete_task,
\* delete_task and update_task called on an open store with an id that matches
\* no stored row raise no error and leave every project and task row unchanged.
C9_AbsentIdIsNoOp ==
    [][/\ \A p \in ProjectIdArgs, ok \in CopyOutcomes :
            (/\ archive_project(p, ok) \/ delete_project(p, ok)
             /\ conn = "open"
             /\ p \notin ProjectIds)
            => ~raised' /\ projects' = projects /\ tasks' = tasks
       /\ \A t \in TaskIdArgs, ok \in CopyOutcomes :
            (/\ \/ complete_task(t, ok)
                \/ uncomplete_task(t, ok)
                \/ delete_task(t, ok)
                \/ \E k \in 1..Len(KwargsList) : update_task(t, KwargsList[k], ok)
             /\ conn = "open"
             /\ t \notin TaskIds)
            => ~raised' /\ projects' = projects /\ tasks' = tasks]_vars

\* C10: a stored project that archive_project was applied to is in no
\* list_projects(include_archived=false) result and in every
\* list_projects(include_archived=true) result; a stored project that was not
\* archived is in both.
C10_ArchivedListing ==
    /\ get_projects(TRUE) # {}
    /\ get_projects(FALSE) # {}
    /\ \A p \in projects :
        /\ \A r \in get_projects(TRUE) : p.id \in IdsOf(r)
        /\ \A r \in get_projects(FALSE) :
              p.id \in IdsOf(r) <=> p.id \notin archive_called

\* an archived project and a project that was never archived are both stored
C10_Witness ==
    /\ \E p \in projects : p.id \in archive_called /\ p.is_archived = 1
    /\ \E p \in projects : p.id \notin archive_called
    /\ conn = "open"

\* C11: in every reachable state and for every project, list_tasks (with
\* either include_deleted) returns the project's tasks sorted ascending by
\* priority and, among equal priorities, ascending by created_at, also after
\* update_task changed a priority.
C11_SortedByPriorityCreated ==
    \A P \in ProjectIdArgs, incl \in BOOLEAN :
        /\ get_tasks(P, incl) # {}
        /\ \A r \in get_tasks(P, incl) :
              /\ IdsOf(r) = {t.id : t \in {u \in tasks :
                                /\ u.project_id = P
                                /\ (incl \/ u.is_deleted = 0)}}
              /\ \A i, j \in DOMAIN r :
                    i < j => \/ r[i].priority < r[j].priority
                             \/ /\ r[i].priority = r[j].priority
                                /\ DatetimeLeq(r[i].created_at, r[j].created_at)

\* tasks created with priorities 5, -1, 0, the second then moved to priority
\* 1 by update_task, are listed third, second, first
C11_Witness ==
    \E r \in get_tasks(1, FALSE) :
        /\ Len(r) = 3
        /\ <<r[1].id, r[2].id, r[3].id>> = <<3, 2, 1>>
        /\ <<r[1].priority, r[2].priority, r[3].priority>> = <<0, 1, 5>>

\* C12: of two listed tasks of the same project with equal priority, the one
\* whose create_task call happened first (the smaller id) can be listed first,
\* whatever the clock read at the two calls.
C12_FirstCreatedFirst ==
    \A t \in tasks, u \in tasks :
        (/\ t.id < u.id
         /\ t.project_id = u.project_id
         /\ t.priority = u.priority
         /\ t.is_deleted = 0
         /\ u.is_deleted = 0)
        => \E r \in get_tasks(t.project_id, FALSE) :
              IndexOf(r, t.id) < IndexOf(r, u.id)

\* the stored tasks that are due: a due date, not completed, not deleted
DueTasks == {t \in tasks : t.due_date # NULL /\ t.is_completed = 0 /\ t.is_deleted = 0}

\* C13: list_tasks_due(null) returns exactly the stored tasks that have a
\* due date, are not completed, are not deleted and belong to a stored project
\* that was not archived, sorted by due_date ascending regardless of priority.
C13_DueListing ==
    /\ get_tasks_with_due_dates(NULL) # {}
    /\ \A r \in get_tasks_with_due_dates(NULL) :
          /\ IdsOf(r) = {t.id : t \in {u \in DueTasks :
                             u.project_id \in ProjectIds \ archive_called}}
          /\ \A i, j \in DOMAIN r : i < j => DatetimeLeq(r[i].due_date, r[j].due_date)

\* the task created second, with priority 0 and the earlier due date, is
\* listed before the task created first with priority -5
C13_Witness ==
    \E r \in get_tasks_with_due_dates(NULL) :
        /\ Len(r) = 2
        /\ <<r[1].id, r[2].id>> = <<2, 1>>
        /\ <<r[1].priority, r[2].priority>> = <<0, -5>>
        /\ <<r[1].due_date, r[2].due_date>> = << <<1, 0>>, <<2, 0>> >>

\* C14 as claimed: for every argument of list_tasks_due (null or a project
\* id), no returned task belongs to a project archive_project was applied to.
C14_NoArchivedProjectTask ==
    \A P \in OptionalProjectIds : \A r \in get_tasks_with_due_dates(P) :
        \A k \in DOMAIN r : r[k].project_id \notin archive_called

\* C14 amended: list_tasks_due(null) returns no task of an archived project;
\* list_tasks_due(P.id) returns the due tasks of P whether or not P is
\* archived.
C14_ArchivedOnlyExcludedFromAll ==
    /\ \A r \in get_tasks_with_due_dates(NULL) :
          \A k \in DOMAIN r : r[k].project_id \notin archive_called
    /\ \A P \in ProjectIdArgs :
          /\ get_tasks_with_due_dates(<<P>>) # {}
          /\ \A r \in get_tasks_with_due_dates(<<P>>) :
                IdsOf(r) = {t.id : t \in {u \in DueTasks : u.project_id = P}}

\* archive_project was applied to a project with a due task: the task is
\* not in list_tasks_due(null) and is in list_tasks_due of its project
C14_Witness ==
    \E t \in DueTasks :
        /\ t.project_id \in archive_called
        /\ \A r \in get_tasks_with_due_dates(NULL) : t.id \notin IdsOf(r)
        /\ \E r \in get_tasks_with_due_dates(<<t.project_id>>) : t.id \in IdsOf(r)

\* C15: list_tasks_completed(p) returns exactly the completed, non-deleted
\* tasks (of project p when p is given, of the stored projects that were not
\* archived when p is null), sorted by completed_at descending; a task that
\* uncomplete_task or delete_task was applied to is not in it.
C15_CompletedListing ==
    \A P \in OptionalProjectIds :
        /\ get_completed_tasks(P) # {}
        /\ \A r \in get_completed_tasks(P) :
              /\ IdsOf(r) = {t.id : t \in {u \in tasks :
                                /\ u.is_completed = 1
                                /\ u.is_deleted = 0
                                /\ IF P = NULL
                                   THEN u.project_id \in ProjectIds \ archive_called
                                   ELSE u.project_id = P[1]}}
              /\ \A i, j \in DOMAIN r :
                    i < j => DatetimeLeq(r[j].completed_at, r[i].completed_at)

\* the only two tasks, completed at different times, are listed most
\* recently completed first
C15_Witness ==
    \E r \in get_completed_tasks(NULL) :
        /\ Len(r) = 2
        /\ <<r[1].id, r[2].id>> = <<2, 1>>
        /\ r[1].completed_at # r[2].completed_at
        /\ Cardinality(tasks) = 2

\* C16: after complete_task(T.id) of a stored non-completed task T followed
\* by uncomplete_task(T.id), T has is_completed false and completed_at null,
\* every other field of T, every other task and every project are as before
\* complete_task, and T (unless deleted) is in list_tasks(T.project_id,
\* include_deleted=false) at the place (priority, created_at) gives it.
C16_CompleteUncompleteRestores ==
    round.stage = "restored" =>
        LET T == TaskRow(round.id)
            before == CHOOSE t \in round.before.tasks : t.id = round.id
        IN  /\ T.is_completed = 0
            /\ T.completed_at = NULL
            /\ T = [before EXCEPT !.is_completed = 0, !.completed_at = NULL]
            /\ tasks \ {T} = round.before.tasks \ {before}
            /\ projects = round.before.projects
            /\ get_tasks(T.project_id, FALSE) # {}
            /\ \A r \in get_tasks(T.project_id, FALSE) :
                  /\ T.id \in IdsOf(r) <=> T.is_deleted = 0
                  /\ T.is_deleted = 0 =>
                        \A u \in tasks :
                            (u.id \in IdsOf(r) /\ u.id # T.id) =>
                               /\ ByPriorityCreated(u, T) => IndexOf(r, u.id) < IndexOf(r, T.id)
                               /\ ByPriorityCreated(T, u) => IndexOf(r, T.id) < IndexOf(r, u.id)

\* task 1 (priority 0) was completed and uncompleted at a later clock value
\* and is listed again after task 2 (priority -5)
C16_Witness ==
    /\ round.stage = "restored"
    /\ round.id = 1
    /\ clock > 0
    /\ \E r \in get_tasks(1, FALSE) :
          Len(r) = 2 /\ <<r[1].id, r[2].id>> = <<2, 1>> /\ r[1].priority = -5

\* C17: update_task(id, fields) that returns sets exactly the supplied fields
\* among title, priority, due_date, is_completed, is_deleted of the stored
\* task id to the supplied values, as read back in the Task object (due_date
\* == D, or null), and leaves every other field of that task, every other
\* task and every project unchanged.
C17_UpdateSetsSuppliedFieldsOnly ==
    [][\A i \in TaskIdArgs, k \in 1..Len(KwargsList), ok \in CopyOutcomes :
        (update_task(i, KwargsList[k], ok) /\ ~raised' /\ i \in TaskIds)
        => LET supplied == DOMAIN KwargsList[k] \cap
                   {"title", "priority", "due_date", "is_completed", "is_deleted"}
               old == TaskRow(i)
               new == CHOOSE t \in tasks' : t.id = i
           IN  /\ \A f \in supplied : RowToTask(new)[f] = KwargsList[k][f]
               /\ \A f \in DOMAIN old \ supplied : new[f] = old[f]
               /\ tasks' \ {new} = tasks \ {old}
               /\ projects' = projects]_vars

\* a task whose due date update_task has set reads back with that datetime,
\* next to a task of the same project that has none
C17_Witness ==
    \E t \in tasks, u \in tasks :
        /\ t.due_date = <<1>> /\ RowToTask(t).due_date = <<1, 0>>
        /\ u.id # t.id /\ u.project_id = t.project_id /\ u.due_date = NULL
        /\ ~raised

\* C18: every mutating operation adds one file to the backup directory (k
\* operations leave k files), whatever the timing of the operations, and no
\* operation removes a backup file.
C18_OneBackupPerOperation ==
    [][/\ MutatingOperation => Cardinality(backups') = Cardinality(backups) + 1
       /\ backups \subseteq backups']_vars

\* C19: when a mutating operation returns, the backup file it wrote (the
\* file named after the current second) holds the committed content of the
\* database including the operation's change, and the connection is open.
C19_BackupAfterCommit ==
    [][MutatingOperation =>
          /\ Strftime(Now) \in backups'
          /\ DOMAIN backup_data' = backups'
          /\ backup_data'[Strftime(Now)] = [projects |-> projects', tasks |-> tasks']
          /\ conn' = "open"]_vars

\* the backup file holds a project archived and a task completed by the
\* operations that wrote it, and the store is open
C19_Witness ==
    /\ conn = "open"
    /\ ~raised
    /\ backups # {}
    /\ \E f \in backups :
          /\ backup_data[f] = Content
          /\ \E t \in backup_data[f].tasks : t.is_completed = 1 /\ t.completed_at # NULL
          /\ \E p \in backup_data[f].projects : p.is_archived = 1

\* C20: the id create_project assigns differs from the id of every project
\* created before in the store, hard-deleted ones included, and the id
\* create_task assigns from the id of every task created before, including
\* the tasks removed by delete_project.
C20_IdsNeverReused ==
    [][/\ \A p \in projects' : p.id \notin ProjectIds => p.id \notin issued_projects
       /\ \A t \in tasks' : t.id \notin TaskIds => t.id \notin issued_tasks
       /\ ProjectIds \subseteq issued_projects
       /\ TaskIds \subseteq issued_tasks]_vars

\* project 1 and its task were hard-deleted and the project created
\* afterwards has id 2
C20_Witness ==
    /\ deleted_projects = {1}
    /\ purged = {1}
    /\ ProjectIds = {2}
    /\ issued_projects = {1, 2}
    /\ issued_tasks = {1}

\* C21: whenever a mutating operation raises to its caller instead of
\* returning, whatever step failed (the file copy of its backup included),
\* the committed project and task rows equal the rows before the call.
C21_RaisedLeavesDataUntouched ==
    [][(nops' = nops + 1 /\ raised') => (projects' = projects /\ tasks' = tasks)]_vars

\* C22: once a task has is_deleted true, no operation makes it have
\* is_deleted false again, and it is in no later list_tasks(project_id,
\* include_deleted=false), list_tasks_due or list_tasks_completed result.
C22_NoUndelete ==
    [][\A t \in tasks : \A u \in tasks' :
         (u.id = t.id /\ t.is_deleted = 1) =>
            /\ u.is_deleted = 1
            /\ (\A r \in get_tasks(u.project_id, FALSE) : u.id \notin IdsOf(r))'
            /\ (\A P \in OptionalProjectIds :
                   /\ \A r \in get_tasks_with_due_dates(P) : u.id \notin IdsOf(r)
                   /\ \A r \in get_completed_tasks(P) : u.id \notin IdsOf(r))']_vars

\* the state of project id: absent (never created), created, archived or
\* deleted
ProjectState(id, rows, deleted) ==
    IF \E p \in rows : p.id = id
    THEN (IF (CHOOSE p \in rows : p.id = id).is_archived = 1
          THEN "archived" ELSE "created")
    ELSE IF id \in deleted THEN "deleted" ELSE "absent"

\* C23: a project with is_archived true keeps it in every later state until
\* it is hard-deleted; the only transitions of a project any operation
\* performs are created -> archived, created -> deleted and archived ->
\* deleted (after its creation).
C23_ArchivedStaysArchived ==
    [][\A id \in ProjectIdArgs :
         LET old == ProjectState(id, projects, deleted_projects)
             new == ProjectState(id, projects', deleted_projects')
         IN  old # new =>
               <<old, new>> \in {<<"absent", "created">>, <<"created", "archived">>,
                                 <<"created", "deleted">>, <<"archived", "deleted">>}]_vars

\* archive_project was applied to a stored archived project, and another
\* project was hard-deleted
C23_Witness ==
    /\ \E p \in projects : p.is_archived = 1 /\ p.id \in archive_called
    /\ deleted_projects # {}
    /\ conn = "open"

\* C24: no operation changes the id, project_id or created_at of a stored
\* task, or the id or created_at of a stored project, whatever keyword
\* arguments update_task is called with: a row that stays keeps them, and no
\* step both removes an id and introduces one.
C24_CreationFieldsImmutable ==
    [][/\ \A t \in tasks : \A u \in tasks' :
            u.id = t.id => u.project_id = t.project_id /\ u.created_at = t.created_at
       /\ \A p \in projects : \A q \in projects' :
            q.id = p.id => q.created_at = p.created_at
       /\ TaskIds' \subseteq TaskIds \/ TaskIds \subseteq TaskIds'
       /\ ProjectIds' \subseteq ProjectIds \/ ProjectIds \subseteq ProjectIds']_vars

\* a task of project 1 created at clock 0 was given priority 1 by update_task
\* at clock 1, when project 1 was archived as well
C24_Witness ==
    /\ \E t \in tasks : t.priority = 1 /\ t.project_id = 1 /\ t.created_at = <<0>>
    /\ \E p \in projects : /\ p.id = 1 /\ p.created_at = <<0>>
                             /\ p.archived_at = <<0, 1>>
    /\ clock = 1

\* the process starts: no manager yet, the settings file as the last run or
\* the user left it, no store constructed
InitConfig ==
    /\ config_file \in InitialFiles
    /\ directories \in BOOLEAN
    /\ instance = 0
    /\ managers = << >>
    /\ configs = << >>
    /\ loads = 0
    /\ returned = [managers |-> {}, configs |-> {}]
    /\ projects = {}
    /\ tasks = {}
    /\ seq_projects = 0
    /\ seq_tasks = 0
    /\ foreign_keys = FALSE
    /\ conn = "closed"
    /\ backups = {}
    /\ clock = 0
    /\ nops = 0
    /\ raised = FALSE
    /\ purged = {}
    /\ deleted_projects = {}
    /\ archive_called = {}
    /\ backup_data = << >>
    /\ issued_projects = {}
    /\ issued_tasks = {}
    /\ round = NoRound
    /\ threads = IdleThreads

\* the effect of ConfigManager() on the objects: __new__, then __init__,
\* which loads the settings if the object is not initialized
Construct ==
    LET m == New(instance)
        fresh == m > Len(managers)
        loaded == LoadOrCreate(config_file)
    IN  /\ instance' = m
        /\ IF fresh \/ ~managers[m].initialized
           THEN /\ configs' = Append(configs, loaded.config)
                /\ managers' = [i \in 1..(IF fresh THEN m ELSE Len(managers)) |->
                                   IF i = m
                                   THEN [initialized |-> TRUE, config |-> Len(configs) + 1]
                                   ELSE managers[i]]
                /\ config_file' = loaded.file
                /\ directories' = (directories \/ loaded.mkdir)
                /\ loads' = loads + 1
           ELSE UNCHANGED <<configs, managers, config_file, directories, loads>>

\* ConfigManager(): the caller gets the manager
ConfigManager ==
    /\ nops < MaxOps
    /\ nops' = nops + 1
    /\ Construct
    /\ returned' = [returned EXCEPT !.managers = @ \cup {instance'}]
    /\ raised' = FALSE
    /\ UNCHANGED DatabaseVars

\* get_config(): ConfigManager().config, the caller gets the Config object
get_config ==
    /\ nops < MaxOps
    /\ nops' = nops + 1
    /\ Construct
    /\ returned' = [returned EXCEPT !.configs = @ \cup {managers'[instance'].config}]
    /\ raised' = FALSE
    /\ UNCHANGED DatabaseVars

\* manager.update(**kwargs) through a manager the caller holds
update(manager, kwargs) ==
    /\ nops < MaxOps
    /\ nops' = nops + 1
    /\ manager \in returned.managers
    /\ configs' = [configs EXCEPT ![managers[manager].config] = SetAttrs(@, kwargs)]
    /\ config_file' = Save(configs'[managers[manager].config])
    /\ raised' = FALSE
    /\ UNCHANGED <<directories, instance, managers, loads, returned, DatabaseVars>>

\* the process exits and is started again: the objects are gone, the
\* settings file and the directories stay
Restart ==
    /\ instance # 0
    /\ instance' = 0
    /\ managers' = << >>
    /\ configs' = << >>
    /\ loads' = 0
    /\ returned' = [managers |-> {}, configs |-> {}]
    /\ UNCHANGED <<config_file, directories, nops, raised, DatabaseVars>>

\* C25: the first construction never fails: when the settings file exists
\* but is not parsable, lacks a required key or has an unknown key, the
\* configuration becomes the defaults and the file is overwritten with them;
\* when no file exists the defaults are used, the directories are created and
\* the file is written.
C25_LoadFallsBackToDefaults ==
    [][loads' = loads + 1 =>
         LET defaults == [database_path |-> "data/todoui.db",
                          backup_path |-> "data/backups", frame_count |-> 3,
                          default_priority |-> 0, theme |-> "dark",
                          frame_projects |-> << >>]
             unloadable ==
                 \/ config_file.kind = "corrupt"
                 \/ /\ config_file.kind = "json"
                    /\ \/ {"database_path", "backup_path"} \ DOMAIN config_file.data # {}
                       \/ DOMAIN config_file.data \ DOMAIN defaults # {}
             now == configs'[managers'[instance'].config]
         IN  /\ ~raised'
             /\ config_file.kind = "absent" =>
                   /\ now = defaults
                   /\ directories'
                   /\ config_file' = [kind |-> "json", data |-> defaults]
             /\ unloadable =>
                   /\ now = defaults
                   /\ config_file' = [kind |-> "json", data |-> defaults]]_vars

\* the process started on an existing settings file that could not be
\* loaded (the directories were not created): the defaults are in memory
\* and in the file
C25_Witness ==
    /\ loads = 1
    /\ ~directories
    /\ instance # 0
    /\ configs[managers[instance].config] = DefaultConfig
    /\ config_file = [kind |-> "json", data |-> DefaultConfig]

\* C26: update(fields) changes exactly the named fields that are settings
\* keys, leaves every other setting (and every other Config object)
\* unchanged, and writes the whole configuration to the settings file, whose
\* content then equals the in-memory configuration.
C26_UpdateIsPartialAndSaved ==
    [][\A m \in 1..MaxOps, k \in 1..Len(UpdateKwargs) :
         update(m, UpdateKwargs[k]) =>
            LET c == managers[m].config
            IN  /\ \A f \in Fields :
                      configs'[c][f] = IF f \in DOMAIN UpdateKwargs[k]
                                       THEN UpdateKwargs[k][f] ELSE configs[c][f]
                /\ \A i \in DOMAIN configs : i # c => configs'[i] = configs[i]
                /\ DOMAIN configs' = DOMAIN configs
                /\ config_file'.kind = "json"
                /\ config_file'.data = [f \in Fields |-> configs'[c][f]]]_vars

\* two updates on the defaults, one with the theme and one with
\* default_priority and a name that is no settings key: the other settings
\* are the defaults and the file holds the configuration
C26_Witness ==
    \E i \in DOMAIN configs :
        /\ configs[i].theme = "light"
        /\ configs[i].default_priority = 1
        /\ configs[i].frame_count = 3
        /\ configs[i].database_path = "data/todoui.db"
        /\ config_file = [kind |-> "json", data |-> [f \in Fields |-> configs[i][f]]]

\* C27: the process has one manager and one Config object: every
\* ConfigManager() call returns the same manager and every get_config() call
\* the same configuration object, that of the manager; the settings are
\* loaded once.
C27_OneInstance ==
    /\ Len(managers) <= 1
    /\ Len(configs) <= 1
    /\ loads <= 1
    /\ loads = Len(managers)
    /\ returned.managers \subseteq {instance}
    /\ Cardinality(returned.managers) <= 1
    /\ Cardinality(returned.configs) <= 1
    /\ instance # 0 => returned.configs \subseteq {managers[instance].config}

\* three calls, of ConfigManager() and get_config() at least, and an update
\* in between at most: one manager, one Config object, one load
C27_Witness ==
    /\ nops >= 3
    /\ returned.managers = {1}
    /\ returned.configs = {1}
    /\ loads = 1
    /\ configs[1].theme = "light"

\* the variables no step of a thread inside an operation writes
ThreadFrame == <<projects, seq_projects, clock, purged, deleted_projects,
                 archive_called, issued_projects, round, ConfigVars>>

\* thread th calls complete_task or uncomplete_task: self.conn.cursor() and
\* the UPDATE, which stays in the open transaction; a thread that did not
\* create the connection, or a closed connection, raises
ThreadCall(th, op, task_id) ==
    /\ threads.pc[th] = "idle"
    /\ nops < MaxOps
    /\ nops' = nops + 1
    /\ IF SameThread(th) /\ conn = "open"
       THEN /\ threads' = [threads EXCEPT !.pc[th] = "executed",
                                           !.pending[th] = <<op, task_id, IsoFormat(Now)>>]
            /\ raised' = FALSE
       ELSE /\ raised' = TRUE
            /\ UNCHANGED threads
    /\ UNCHANGED <<tasks, seq_tasks, issued_tasks, foreign_keys, conn, backups,
                   backup_data, ThreadFrame>>

\* self.conn.commit()
ThreadCommit(th) ==
    /\ threads.pc[th] = "executed"
    /\ tasks' = IF threads.pending[th][1] = "complete_task"
                THEN CompleteRows(threads.pending[th][2], threads.pending[th][3])
                ELSE UncompleteRows(threads.pending[th][2])
    /\ threads' = [threads EXCEPT !.pc[th] = "committed"]
    /\ UNCHANGED <<seq_tasks, issued_tasks, foreign_keys, conn, backups, backup_data,
                   nops, raised, ThreadFrame>>

\* _backup: self.conn.close()
ThreadClose(th) ==
    /\ threads.pc[th] = "committed"
    /\ conn' = "closed"
    /\ threads' = [threads EXCEPT !.pc[th] = "closed"]
    /\ UNCHANGED <<tasks, seq_tasks, issued_tasks, foreign_keys, backups, backup_data,
                   nops, raised, ThreadFrame>>

\* _backup: shutil.copy2(self.db_path, backup_file)
ThreadCopy(th) ==
    /\ threads.pc[th] = "closed"
    /\ backups' = backups \cup {Strftime(Now)}
    /\ backup_data' = CopyTo(Strftime(Now), Content)
    /\ threads' = [threads EXCEPT !.pc[th] = "copied"]
    /\ UNCHANGED <<tasks, seq_tasks, issued_tasks, foreign_keys, conn,
                   nops, raised, ThreadFrame>>

\* _backup: self.conn = sqlite3.connect(...), created by this thread, and
\* the operation returns
ThreadReopen(th) ==
    /\ threads.pc[th] = "copied"
    /\ conn' = "open"
    /\ foreign_keys' = FALSE
    /\ threads' = [threads EXCEPT !.pc[th] = "idle", !.pending[th] = << >>,
                                   !.owner = th]
    /\ UNCHANGED <<tasks, seq_tasks, issued_tasks, backups, backup_data,
                   nops, raised, ThreadFrame>>

\* thread th calls get_tasks: self.conn.cursor() and the SELECT; it runs
\* against the connection only if the thread created it
ThreadRead(th) ==
    /\ threads.pc[th] = "idle"
    /\ nops < MaxOps
    /\ nops' = nops + 1
    /\ raised' = ~(SameThread(th) /\ conn = "open")
    /\ threads' = [threads EXCEPT !.read_while_closed =
                       @ \/ (SameThread(th) /\ conn = "closed")]
    /\ UNCHANGED <<tasks, seq_tasks, issued_tasks, foreign_keys, conn, backups,
                   backup_data, ThreadFrame>>

\* C28: when the store is called from several threads, at most one mutating
\* operation (its commit and the close, copy, reopen of its backup) is in
\* progress at a time, and no read runs against the connection while
\* _backup has it closed.
C28_OneMutationAtATime ==
    /\ Cardinality({th \in Threads : threads.pc[th] # "idle"}) <= 1
    /\ ~threads.read_while_closed
    /\ conn = "closed" => \E th \in Threads : threads.pc[th] \in {"closed", "copied"}

\* while thread 1 is in _backup with the connection closed, a call from
\* another thread was refused
C28_Witness ==
    /\ threads.pc[1] = "closed"
    /\ conn = "closed"
    /\ raised
    /\ \E t \in tasks : t.is_completed = 1

\* C29: between operations the store holds an open connection: as long as
\* close() has not been called, whenever an operation has returned or
\* raised (also a mutating operation whose backup copy failed), self.conn
\* is open.
C29_ConnectionOpenBetweenOperations == conn = "open"

\* C30: update_task with no keyword, or only keywords outside title,
\* priority, due_date, is_completed, is_deleted, changes no row, commits
\* nothing and writes no backup file (and does not raise); every other
\* mutating call that returns, also one whose id matches no row, has
\* written the backup file of the current second with the database content.
C30_OnlyEmptyUpdateSkipsBackup ==
    [][/\ (\E t \in TaskIdArgs, k \in 1..Len(KwargsList), ok \in CopyOutcomes :
              /\ DOMAIN KwargsList[k] \cap
                    {"title", "priority", "due_date", "is_completed", "is_deleted"} = {}
              /\ update_task(t, KwargsList[k], ok))
          => /\ ~raised'
             /\ UNCHANGED <<projects, tasks, seq_projects, seq_tasks, backups,
                            backup_data, conn, foreign_keys>>
       /\ MutatingOperation
          => /\ Strftime(Now) \in backups'
             /\ backup_data'[Strftime(Now)] = [projects |-> projects', tasks |-> tasks']
             /\ foreign_keys' = FALSE]_vars

\* a call whose id matched no row has written a backup of the empty
\* database; a later call lost the connection to a failed copy, and the
\* last call, an update_task without allowed field, returned without
\* touching the closed connection
C30_Witness ==
    /\ backups # {}
    /\ projects = {} /\ tasks = {} /\ seq_projects = 0 /\ seq_tasks = 0
    /\ conn = "closed"
    /\ ~raised

Next ==
    \/ Tick
    \/ \E n \in Names, d \in Descriptions, ok \in CopyOutcomes : create_project(n, d, ok)
    \/ \E p \in ProjectIdArgs, ok \in CopyOutcomes : archive_project(p, ok)
    \/ \E p \in ProjectIdArgs, ok \in CopyOutcomes : delete_project(p, ok)
    \/ \E p \in ProjectIdArgs, t \in Titles, pr \in Priorities, due \in DueDates,
          ok \in CopyOutcomes : create_task(p, t, pr, due, ok)
    \/ \E t \in TaskIdArgs, ok \in CopyOutcomes : complete_task(t, ok)
    \/ \E t \in TaskIdArgs, ok \in CopyOutcomes : uncomplete_task(t, ok)
    \/ \E t \in TaskIdArgs, ok \in CopyOutcomes : delete_task(t, ok)
    \/ \E t \in TaskIdArgs, i \in 1..Len(KwargsList), ok \in CopyOutcomes :
          update_task(t, KwargsList[i], ok)
    \/ close
    \/ DatabaseManager

Spec == Init /\ [][Next]_vars

\* the ordering runs: tasks of project 1 with several priorities, created
\* and re-prioritised while the clock advances or is set back
NextOrder ==
    \/ Tick
    \/ ClockSetBack
    \/ \E pr \in OrderPriorities : create_task(1, "t", pr, NULL, TRUE)
    \/ \E t \in TaskIdArgs : update_task(t, [priority |-> 1], TRUE)
    \/ delete_task(1, TRUE)

SpecOrder == InitQuery /\ [][NextOrder]_vars

\* the listing runs: tasks with and without due dates in two projects,
\* completed, uncompleted and deleted, the projects archived
NextListing ==
    \/ Tick
    \/ \E in \in DueInputs : create_task(1, "t", in[1], in[2], TRUE)
    \/ create_task(2, "t", 0, <<1, 0>>, TRUE)
    \/ \E t \in TaskIdArgs : complete_task(t, TRUE)
    \/ \E t \in TaskIdArgs : uncomplete_task(t, TRUE)
    \/ \E t \in TaskIdArgs : delete_task(t, TRUE)
    \/ archive_project(1, TRUE)

SpecListing == InitQuery /\ [][NextListing]_vars

\* the update runs: every keyword combination of update_task on the tasks
\* of project 1
NextUpdate ==
    \/ Tick
    \/ create_task(1, "t", 0, NULL, TRUE)
    \/ \E t \in TaskIdArgs, i \in 1..Len(KwargsList) : update_task(t, KwargsList[i], TRUE)

SpecUpdate == InitQuery /\ [][NextUpdate]_vars

\* the backup runs: each mutating operation on project 1 and task 1
NextBackup ==
    \/ Tick
    \/ create_project("a", NONE, TRUE)
    \/ archive_project(1, TRUE)
    \/ delete_project(1, TRUE)
    \/ create_task(1, "t", 0, NULL, TRUE)
    \/ complete_task(1, TRUE)
    \/ uncomplete_task(1, TRUE)
    \/ delete_task(1, TRUE)
    \/ update_task(1, [priority |-> 1], TRUE)

SpecBackup == Init /\ [][NextBackup]_vars

\* the failure runs: the mutating operations of one store, never closed,
\* with a backup copy that succeeds or fails
NextFailure ==
    \/ Tick
    \/ \E ok \in BOOLEAN : create_project("a", NONE, ok)
    \/ \E ok \in BOOLEAN : archive_project(1, ok)
    \/ \E ok \in BOOLEAN : create_task(1, "t", 0, NULL, ok)
    \/ \E ok \in BOOLEAN : complete_task(1, ok)
    \/ \E ok \in BOOLEAN : delete_task(1, ok)
    \/ \E ok \in BOOLEAN : update_task(1, [priority |-> 1], ok)

SpecFailure == Init /\ [][NextFailure]_vars

\* the settings runs: the process constructs managers, reads and updates
\* the configuration, and restarts
NextConfig ==
    \/ ConfigManager
    \/ get_config
    \/ \E m \in 1..MaxOps, k \in 1..Len(UpdateKwargs) : update(m, UpdateKwargs[k])
    \/ Restart

SpecConfig == InitConfig /\ [][NextConfig]_vars

\* the thread runs: a task is created, then each thread calls
\* complete_task, uncomplete_task and get_tasks, step by step
NextThreads ==
    \/ Tick
    \/ /\ \A th \in Threads : threads.pc[th] = "idle"
       /\ tasks = {}
       /\ create_task(1, "t", 0, NULL, TRUE)
    \/ \E th \in Threads, op \in {"complete_task", "uncomplete_task"} :
          ThreadCall(th, op, 1)
    \/ \E th \in Threads : ThreadCommit(th)
    \/ \E th \in Threads : ThreadClose(th)
    \/ \E th \in Threads : ThreadCopy(th)
    \/ \E th \in Threads : ThreadReopen(th)
    \/ \E th \in Threads : ThreadRead(th)

SpecThreads == InitQuery /\ [][NextThreads]_vars

\* calls with and without effect: ids that match a row and ids that match
\* none, update_task with and without an allowed field, copies that
\* succeed and copies that fail
NextFrame ==
    \/ Tick
    \/ create_project("a", NONE, TRUE)
    \/ create_task(1, "t", 0, NULL, TRUE)
    \/ \E ok \in BOOLEAN : archive_project(2, ok)
    \/ \E t \in {1, 2} : complete_task(t, TRUE)
    \/ delete_task(2, TRUE)
    \/ \E t \in {1, 2}, k \in {1, 2, 7, 14, 15} : update_task(t, KwargsList[k], TRUE)

SpecFrame == Init /\ [][NextFrame]_vars
====
